---- MODULE Spec2Model ----
(***************************************************************************)
(* PRISM speaker-recognition protocols (Prism/__init__.py).                *)
(*                                                                         *)
(* The state is the static data the package reads (key files, identifier   *)
(* lists, trial key masks), the protocol objects constructed so far, the   *)
(* n_items attributes stored on the iterator functions of the classes, the *)
(* generator objects obtained from the partition iterators, and the        *)
(* outcome of the most recent call.                                        *)
(*                                                                         *)
(* Python values are rendered as follows.  A DataFrame is the sequence of  *)
(* its rows, a row is a record of its columns; unique_name, once it is the *)
(* index, stays a field of the row.  Of the sixteen columns the model      *)
(* keeps the nine the code reads plus target, which stands for the columns *)
(* the code only carries along (uri, SESSION_ID, YEAR_OF_BIRTH, ...).      *)
(* A value that may be None is wrapped: Some(v) or None.  An exception is  *)
(* the string naming its type; "none" means the call returned.             *)
(***************************************************************************)
EXTENDS Integers, Sequences, FiniteSets

VARIABLES
  keyfiles,     \* data/KEYS/<db>.key: database name -> sequence of raw rows
  idfiles,      \* data/TRIALS/sre10.conditions/*.{trn,tst}ids: <<cond, gender, role>> -> ids
  trialfiles,   \* data/TRIALS/sre10.conditions/*.keymask: <<cond, gender>> -> lines
  instances,    \* the protocol objects constructed so far, in order
  n_items,      \* class -> partition -> the n_items attribute of that class's iterator function
  gens,         \* the generator objects obtained so far
  lastOp,       \* the most recent call
  raised,       \* the exception it raised, "none" if it returned
  matrix        \* what the most recent tst_keys() returned

vars == <<keyfiles, idfiles, trialfiles, instances, n_items, gens, lastOp, raised, matrix>>

----------------------------------------------------------------------------
(* Bounds of the model *)

MaxRows == 2        \* rows over all key files, when every filling is tried
MaxInstances == 2   \* protocol objects constructed in one run
MaxGens == 2        \* generator objects obtained in one run
MaxLines == 3       \* lines of a key mask file

----------------------------------------------------------------------------
(* Generic helpers *)

Some(v) == [none |-> FALSE, val |-> v]

None == [none |-> TRUE]

Min(a, b) == IF a < b THEN a ELSE b

Range(s) == {s[i] : i \in 1..Len(s)}

RECURSIVE Concat(_)
Concat(ss) == IF ss = <<>> THEN <<>> ELSE Head(ss) \o Concat(Tail(ss))

SeqsUpTo(S, lo, hi) == UNION {[1..n -> S] : n \in lo..hi}

----------------------------------------------------------------------------
(* Module constants *)

DATABASES ==
  <<"FISHATD5", "FISHE1", "MIX04", "MIX05", "MIX06", "MIX08", "MIX10",
    "SWCELLP1", "SWCELLP2", "SWPH2", "SWPH3">>

\* The key files the model reads: two of the eleven, in DATABASES order.
ModelDatabases == <<DATABASES[6], DATABASES[7]>>

Genders == {"f", "m"}

\* SRE10 takes condition 1..9; the model keeps the first and the default, which
\* Debug uses too.
ModelConditions == {1, 5}

Partitions == {"train", "dev_enroll", "dev_test", "tst_enroll", "tst_test"}

----------------------------------------------------------------------------
(* Rows of the key files *)

Row(u, d, t, c, g, n, l, s, ct, v) ==
  [unique_name |-> u, database |-> d, target |-> t, channel |-> c, gender |-> g,
   NOMINAL_LENGTH |-> n, language |-> l, SPEECH_TYPE |-> s, CHANNEL_TYPE |-> ct,
   VOCAL_EFFORT |-> v]

RowA == Row("s1", "MIX08", "t1", "a", "f", 300, "ENG", "tel", "phn", "normal")
RowB == Row("s2", "MIX08", "t2", "b", "f", 300, "USE", "tel", "phn", "normal")
RowM == Row("s3", "MIX08", "t3", "x", "m", 300, "ENG", "tel", "phn", "normal")
RowAConflict == Row("s1", "MIX08", "t2", "a", "f", 300, "ENG", "tel", "phn", "normal")
RowAOtherChannel == Row("s1", "MIX08", "t1", "x", "f", 300, "ENG", "tel", "phn", "normal")
RowBadChannel == Row("s4", "MIX08", "t1", "c", "f", 300, "ENG", "tel", "phn", "normal")
RowShort == Row("s5", "MIX08", "t1", "a", "f", 100, "ENG", "tel", "phn", "normal")
RowFrench == Row("s6", "MIX08", "t1", "b", "f", 300, "FRE", "tel", "phn", "normal")
RowMic == Row("s7", "MIX08", "t1", "a", "f", 300, "ENG", "mic", "phn", "normal")
RowMicChannel == Row("s8", "MIX08", "t1", "x", "f", 300, "ENG", "tel", "mic", "normal")
RowHigh == Row("s9", "MIX08", "t1", "a", "f", 300, "ENG", "tel", "phn", "high")
RowLow == Row("s10", "MIX08", "t1", "a", "m", 300, "ENG", "tel", "phn", "low")
RowMix10 == Row("s11", "MIX10", "t1", "b", "f", 300, "USE", "tel", "phn", "normal")

RowCatalog ==
  {RowA, RowB, RowM, RowAConflict, RowAOtherChannel, RowBadChannel, RowShort, RowFrench, RowMic,
   RowMicChannel, RowHigh, RowLow, RowMix10}

----------------------------------------------------------------------------
(* PrismSpeakerRecognitionProtocol.read_keys *)

\* keys = keys.append(local_keys) for each database, in order
AppendAll(files, databases) ==
  Concat([i \in 1..Len(databases) |-> files[databases[i]]])

\* keys[~keys.duplicated()]: a row equal in every column to an earlier row goes,
\* the first occurrence stays, the order is kept
DropDuplicates(rows) ==
  LET keep(i) == \A j \in 1..(i - 1) : rows[j] # rows[i]
      F[i \in 0..Len(rows)] ==
        IF i = 0 THEN <<>>
        ELSE IF keep(i) THEN Append(F[i - 1], rows[i]) ELSE F[i - 1]
  IN F[Len(rows)]

\* the dictionary of the lambda: {'a': 1, 'b': 2, 'x': 1}
ChannelCodes == {"a", "b", "x"}

\* a slip in the dictionary: 'x' sent to the second channel
func_x_to_2(channel) == CASE channel = "a" -> 1 [] channel = "b" -> 2 [] channel = "x" -> 2

func(channel) == CASE channel = "a" -> 1 [] channel = "b" -> 2 [] channel = "x" -> 1

\* set_index('unique_name') checks nothing (verify_integrity is off by default);
\* apply(func) raises the dictionary's KeyError at the first unknown symbol
read_keys(files, databases) ==
  LET keys == DropDuplicates(AppendAll(files, databases)) IN
  IF \E i \in 1..Len(keys) : keys[i].channel \notin ChannelCodes
  THEN [raised |-> "KeyError", keys |-> <<>>]
  ELSE [raised |-> "none",
        keys |-> [i \in 1..Len(keys) |-> [keys[i] EXCEPT !.channel = func(@)]]]

----------------------------------------------------------------------------
(* SRE10 and Debug: the partitions computed by __init__ *)

\* a slip in the length test: >= 100 where the code has > 100
SRE10_get_trn_keys_ge(keys_, gender) ==
  LET k1 == SelectSeq(keys_, LAMBDA r : r.gender = gender)
      k2 == SelectSeq(k1, LAMBDA r : r.language \in {"ENG", "USE"})
      k3 == SelectSeq(k2, LAMBDA r : r.NOMINAL_LENGTH >= 100)
      k4 == SelectSeq(k3, LAMBDA r : r.SPEECH_TYPE = "tel")
      k5 == SelectSeq(k4, LAMBDA r : r.CHANNEL_TYPE = "phn")
      k6 == SelectSeq(k5, LAMBDA r : ~(r.VOCAL_EFFORT \in {"high", "low"}))
      k7 == SelectSeq(k6, LAMBDA r : ~(r.database = "MIX10"))
  IN Some(k7)

\* the seven successive selections of SRE10._get_trn_keys, in the order of the code
SRE10_get_trn_keys(keys_, gender) ==
  LET k1 == SelectSeq(keys_, LAMBDA r : r.gender = gender)
      k2 == SelectSeq(k1, LAMBDA r : r.language \in {"ENG", "USE"})
      k3 == SelectSeq(k2, LAMBDA r : r.NOMINAL_LENGTH > 100)
      k4 == SelectSeq(k3, LAMBDA r : r.SPEECH_TYPE = "tel")
      k5 == SelectSeq(k4, LAMBDA r : r.CHANNEL_TYPE = "phn")
      k6 == SelectSeq(k5, LAMBDA r : ~(r.VOCAL_EFFORT \in {"high", "low"}))
      k7 == SelectSeq(k6, LAMBDA r : ~(r.database = "MIX10"))
  IN Some(k7)

\* Debug._get_trn_keys makes the same selections, the last one inverted, and
\* ends without a return statement: the call evaluates to None
Debug_get_trn_keys(keys_, gender) ==
  LET k1 == SelectSeq(keys_, LAMBDA r : r.gender = gender)
      k2 == SelectSeq(k1, LAMBDA r : r.language \in {"ENG", "USE"})
      k3 == SelectSeq(k2, LAMBDA r : r.NOMINAL_LENGTH > 100)
      k4 == SelectSeq(k3, LAMBDA r : r.SPEECH_TYPE = "tel")
      k5 == SelectSeq(k4, LAMBDA r : r.CHANNEL_TYPE = "phn")
      k6 == SelectSeq(k5, LAMBDA r : ~(r.VOCAL_EFFORT \in {"high", "low"}))
      k7 == SelectSeq(k6, LAMBDA r : r.database = "MIX10")
  IN None

SRE10_get_dev_keys == Some(<<>>)

\* the slice of the list is computed and dropped: no return statement
Debug_get_dev_keys == None

\* unique_names = [line.strip() for line in fp]
SRE10_get_tst_keys(ids, condition, gender, trn_or_tst) ==
  Some(ids[<<condition, gender, trn_or_tst>>])

\* the slice of the list is computed and dropped: no return statement
Debug_get_tst_keys(ids, condition, gender, trn_or_tst) == None

\* self._get_*_keys(): the method of the object's class
get_trn_keys(cls, keys_, gender) ==
  IF cls = "Debug" THEN Debug_get_trn_keys(keys_, gender)
  ELSE SRE10_get_trn_keys(keys_, gender)

get_dev_keys(cls) == IF cls = "Debug" THEN Debug_get_dev_keys ELSE SRE10_get_dev_keys

get_tst_keys(cls, ids, condition, gender, trn_or_tst) ==
  IF cls = "Debug" THEN Debug_get_tst_keys(ids, condition, gender, trn_or_tst)
  ELSE SRE10_get_tst_keys(ids, condition, gender, trn_or_tst)

\* the n_items assignments of Debug.__init__, after SRE10.__init__ returned
DebugNItems ==
  [train |-> Some(20), dev_enroll |-> Some(10), dev_test |-> Some(10),
   tst_enroll |-> Some(10), tst_test |-> Some(10)]

\* self.<p>_iter.__func__ is the function object of the class that defines the
\* method: SRE10's for an SRE10 object, Debug's (it overrides all five) for Debug
IterOwner(cls) == cls

\* SRE10.__init__ run on an object of class cls, as a list of its effects:
\* the exception it ends with ("none" if it returns), the n_items attributes
\* as it leaves them, and the object (when it returns).
\* Line 131 reads .shape of the training keys and lines 134-143 take len() of
\* the lists: on None the first is an AttributeError, the others a TypeError.
\* Each n_items assignment made before an exception stays.
Init_SRE10(cls, condition, gender, files, ids, attrs) ==
  LET rk == read_keys(files, ModelDatabases)
      own == IterOwner(cls)
      trn == get_trn_keys(cls, rk.keys, gender)
      dev_e == get_dev_keys(cls)
      dev_t == get_dev_keys(cls)
      tst_e == get_tst_keys(cls, ids, condition, gender, "trn")
      tst_t == get_tst_keys(cls, ids, condition, gender, "tst")
      a1 == [attrs EXCEPT ![own].train = Some(Len(trn.val))]
      a2 == [a1 EXCEPT ![own].dev_enroll = Some(Len(dev_e.val))]
      a3 == [a2 EXCEPT ![own].dev_test = Some(Len(dev_t.val))]
      a4 == [a3 EXCEPT ![own].tst_enroll = Some(Len(tst_e.val))]
      a5 == [a4 EXCEPT ![own].tst_test = Some(Len(tst_t.val))]
      fail(e, a) == [raised |-> e, attrs |-> a, obj |-> None]
  IN
  IF rk.raised # "none" THEN fail(rk.raised, attrs)
  ELSE IF trn.none THEN fail("AttributeError", attrs)
  ELSE IF dev_e.none THEN fail("TypeError", a1)
  ELSE IF dev_t.none THEN fail("TypeError", a2)
  ELSE IF tst_e.none THEN fail("TypeError", a3)
  ELSE IF tst_t.none THEN fail("TypeError", a4)
  ELSE [raised |-> "none", attrs |-> a5,
        obj |-> Some([cls |-> cls, condition |-> condition, gender |-> gender,
                      keys_ |-> rk.keys, trn_keys_ |-> trn.val,
                      dev_enroll_keys_ |-> dev_e.val, dev_test_keys_ |-> dev_t.val,
                      tst_enroll_keys_ |-> tst_e.val, tst_test_keys_ |-> tst_t.val])]

\* Debug.__init__: SRE10.__init__ with gender 'f' and condition 5, then the
\* five fixed n_items
Init_Debug(files, ids, attrs) ==
  LET r == Init_SRE10("Debug", 5, "f", files, ids, attrs) IN
  IF r.raised # "none" THEN r
  ELSE [r EXCEPT !.attrs = [@ EXCEPT !["Debug"] = DebugNItems]]

----------------------------------------------------------------------------
(* The partition iterators: one step of a generator object *)

Columns ==
  {"database", "target", "channel", "gender", "NOMINAL_LENGTH", "language",
   "SPEECH_TYPE", "CHANNEL_TYPE", "VOCAL_EFFORT"}

\* dict(row): the columns of the row, the index (unique_name) left out
DictOfRow(row) == [kind |-> "row", cols |-> [c \in Columns |-> row[c]]]

\* self.keys_.loc[unique_name] and dict() of it: no row of that name is a
\* KeyError; one row is a Series, whose dict is the record; several rows are a
\* DataFrame, whose dict maps each column to the Series of its values
DictOfLoc(keys_, unique_name) ==
  LET m == SelectSeq(keys_, LAMBDA r : r.unique_name = unique_name) IN
  IF Len(m) = 0 THEN None
  ELSE IF Len(m) = 1 THEN Some(DictOfRow(m[1]))
  ELSE Some([kind |-> "frame",
             cols |-> [c \in Columns |-> [i \in 1..Len(m) |-> m[i][c]]]])

Yield(u, d) == [kind |-> "yield", item |-> [unique_name |-> u, dict |-> d]]

Stop == [kind |-> "stop"]

Raise(e) == [kind |-> "raise", exc |-> e]

\* for unique_name in names: yield unique_name, dict(self.keys_.loc[unique_name])
LookupStep(keys_, names, pos) ==
  IF pos >= Len(names) THEN Stop
  ELSE LET d == DictOfLoc(keys_, names[pos + 1]) IN
       IF d.none THEN Raise("KeyError") ELSE Yield(names[pos + 1], d.val)

\* for unique_name, row in self.trn_keys_.iterrows(): yield unique_name, dict(row)
SRE10_trn_iter(obj, pos) ==
  IF pos >= Len(obj.trn_keys_) THEN Stop
  ELSE Yield(obj.trn_keys_[pos + 1].unique_name, DictOfRow(obj.trn_keys_[pos + 1]))

SRE10_dev_enroll_iter(obj, pos) == LookupStep(obj.keys_, obj.dev_enroll_keys_, pos)

SRE10_dev_test_iter(obj, pos) == LookupStep(obj.keys_, obj.dev_test_keys_, pos)

SRE10_tst_enroll_iter(obj, pos) == LookupStep(obj.keys_, obj.tst_enroll_keys_, pos)

SRE10_tst_test_iter(obj, pos) == LookupStep(obj.keys_, obj.tst_test_keys_, pos)

\* Debug.trn_iter: the row of index i is yielded, and the test i > 20 is made
\* when the generator is resumed; pos rows were yielded, the last of index pos - 1
Debug_trn_iter(obj, pos) ==
  IF pos >= 1 /\ pos - 1 > 20 THEN Stop
  ELSE IF pos >= Len(obj.trn_keys_) THEN Stop
  ELSE Yield(obj.trn_keys_[pos + 1].unique_name, DictOfRow(obj.trn_keys_[pos + 1]))

\* return []
Debug_dev_iter(obj, pos) == Stop

\* for unique_name in self._get_tst_keys(trn_or_tst=...)[:10]: the slice of None
\* is a TypeError
Debug_tst_iter(obj, ids, trn_or_tst, pos) ==
  LET l == Debug_get_tst_keys(ids, obj.condition, obj.gender, trn_or_tst) IN
  IF l.none THEN Raise("TypeError")
  ELSE LookupStep(obj.keys_, SubSeq(l.val, 1, Min(10, Len(l.val))), pos)

\* obj.<part>_iter(), resumed after pos items
IterStep(obj, ids, part, pos) ==
  IF obj.cls = "Debug"
  THEN CASE part = "train" -> Debug_trn_iter(obj, pos)
         [] part = "dev_enroll" -> Debug_dev_iter(obj, pos)
         [] part = "dev_test" -> Debug_dev_iter(obj, pos)
         [] part = "tst_enroll" -> Debug_tst_iter(obj, ids, "trn", pos)
         [] part = "tst_test" -> Debug_tst_iter(obj, ids, "tst", pos)
  ELSE CASE part = "train" -> SRE10_trn_iter(obj, pos)
         [] part = "dev_enroll" -> SRE10_dev_enroll_iter(obj, pos)
         [] part = "dev_test" -> SRE10_dev_test_iter(obj, pos)
         [] part = "tst_enroll" -> SRE10_tst_enroll_iter(obj, pos)
         [] part = "tst_test" -> SRE10_tst_test_iter(obj, pos)

----------------------------------------------------------------------------
(* SRE10.tst_keys *)

\* read_table(path, delim_whitespace=True, names=tst): with names given no line
\* is taken as a header, every line of the file is a row of the table.
\* keys['trn'] = trn raises ValueError when the list and the table differ in
\* length; set_index('trn') makes the list the row index.  No cell is looked at.
SRE10_tst_keys(ids, trials, condition, gender) ==
  LET trn == SRE10_get_tst_keys(ids, condition, gender, "trn").val
      tst == SRE10_get_tst_keys(ids, condition, gender, "tst").val
      keys == trials[<<condition, gender>>]
  IN IF Len(trn) # Len(keys) THEN [raised |-> "ValueError", keys |-> None]
     ELSE [raised |-> "none",
           keys |-> Some([index |-> trn, columns |-> tst, rows |-> keys])]

----------------------------------------------------------------------------
(* The static data.  No file is empty: every key file holds a row and every *)
(* key mask a line.                                                          *)

IdFileKeys == {<<c, g, r>> : c \in ModelConditions, g \in Genders, r \in {"trn", "tst"}}

TrialFileKeys == {<<c, g>> : c \in ModelConditions, g \in Genders}

KeyFiles(a, b) == [d \in Range(ModelDatabases) |-> IF d = ModelDatabases[1] THEN a ELSE b]

\* Key files of the protocol runs: two genders with training pools of different
\* sizes; two different rows of one name; a channel symbol outside the mapping.
NarrowKeyFiles ==
  {KeyFiles(<<RowA, RowB, RowM>>, <<RowMix10, RowA>>),
   KeyFiles(<<RowA, RowM>>, <<RowAConflict>>),
   KeyFiles(<<RowA>>, <<RowBadChannel>>)}

\* Key files of the key-loading runs: every way to fill the files with at most
\* MaxRows rows of the catalog, and two fillings with every row that loads,
\* a row repeated within a file and across the files
WideKeyFiles ==
  {KeyFiles(a, b) : <<a, b>> \in
     {p \in SeqsUpTo(RowCatalog, 1, MaxRows - 1) \X SeqsUpTo(RowCatalog, 1, MaxRows - 1) :
        Len(p[1]) + Len(p[2]) <= MaxRows}}
  \cup
  {KeyFiles(<<RowShort, RowA, RowFrench, RowMic, RowA, RowM>>,
            <<RowMix10, RowMicChannel, RowB, RowHigh, RowLow, RowA>>),
   KeyFiles(<<RowB, RowLow, RowM, RowM, RowHigh>>,
            <<RowMic, RowShort, RowA, RowMix10, RowB, RowMicChannel, RowFrench>>)}

\* "s0" names no row of any key file
IdLists == {<<>>, <<"s2", "s1">>, <<"s1", "s0">>}

\* the lists of condition 1, the same in every run
Condition1Ids(gender, trn_or_tst) ==
  IF trn_or_tst = "trn" THEN <<"s1">> ELSE (IF gender = "f" THEN <<"s1", "s2">> ELSE <<>>)

NarrowIdFiles ==
  {[k \in IdFileKeys |->
      IF k[1] = 1 THEN Condition1Ids(k[2], k[3])
      ELSE IF k[2] = "f" THEN (IF k[3] = "trn" THEN e ELSE t)
      ELSE (IF k[3] = "trn" THEN <<"s3">> ELSE m)] :
     e \in IdLists, t \in IdLists, m \in {<<>>, <<"s3">>}}

FixedIdFiles ==
  [k \in IdFileKeys |->
     IF k[1] = 1 THEN Condition1Ids(k[2], k[3])
     ELSE IF k[2] = "f" THEN (IF k[3] = "trn" THEN <<"s1">> ELSE <<"s2", "s1">>)
     ELSE (IF k[3] = "trn" THEN <<"s3">> ELSE <<"s3">>)]

\* one line per enrollment identifier, one cell per test identifier
FixedTrialFiles ==
  [k \in TrialFileKeys |-> IF k[2] = "f" THEN << <<"1", "0">> >> ELSE << <<"1">> >>]

NoAttrs ==
  [p \in Partitions |-> None]

InitObjects ==
  /\ instances = <<>>
  /\ n_items = [c \in {"SRE10", "Debug"} |-> NoAttrs]
  /\ gens = <<>>
  /\ lastOp = [op |-> "import"]
  /\ raised = "none"
  /\ matrix = None

Init ==
  /\ keyfiles \in NarrowKeyFiles
  /\ idfiles \in NarrowIdFiles
  /\ trialfiles = FixedTrialFiles
  /\ InitObjects

InitKeys ==
  /\ keyfiles \in WideKeyFiles
  /\ idfiles = FixedIdFiles
  /\ trialfiles = FixedTrialFiles
  /\ InitObjects

----------------------------------------------------------------------------
(* The operations *)

\* SRE10(condition=condition, gender=gender)
ConstructSRE10(condition, gender) ==
  /\ Len(instances) < MaxInstances
  /\ LET r == Init_SRE10("SRE10", condition, gender, keyfiles, idfiles, n_items) IN
     /\ instances' = IF r.raised = "none" THEN Append(instances, r.obj.val) ELSE instances
     /\ n_items' = r.attrs
     /\ raised' = r.raised
  /\ lastOp' = [op |-> "construct", cls |-> "SRE10", condition |-> condition, gender |-> gender]
  /\ matrix' = None
  /\ UNCHANGED <<keyfiles, idfiles, trialfiles, gens>>

\* Debug()
ConstructDebug ==
  /\ Len(instances) < MaxInstances
  /\ LET r == Init_Debug(keyfiles, idfiles, n_items) IN
     /\ instances' = IF r.raised = "none" THEN Append(instances, r.obj.val) ELSE instances
     /\ n_items' = r.attrs
     /\ raised' = r.raised
  /\ lastOp' = [op |-> "construct", cls |-> "Debug", condition |-> 5, gender |-> "f"]
  /\ matrix' = None
  /\ UNCHANGED <<keyfiles, idfiles, trialfiles, gens>>

\* g = instances[i].<part>_iter(): a new generator object, none of its body run
CallIter(i, part) ==
  /\ Len(gens) < MaxGens
  /\ i \in 1..Len(instances)
  /\ gens' = Append(gens, [inst |-> i, part |-> part, out |-> <<>>, state |-> "running"])
  /\ lastOp' = [op |-> "iter", inst |-> i, part |-> part]
  /\ raised' = "none"
  /\ matrix' = None
  /\ UNCHANGED <<keyfiles, idfiles, trialfiles, instances, n_items>>

\* next(gens[k]): the generator runs to its next yield, to its end, or to an
\* exception (which ends it)
NextItem(k) ==
  /\ k \in 1..Len(gens)
  /\ gens[k].state = "running"
  /\ LET g == gens[k]
         step == IterStep(instances[g.inst], idfiles, g.part, Len(g.out))
     IN
     /\ gens' = [gens EXCEPT ![k] =
                   CASE step.kind = "yield" -> [g EXCEPT !.out = Append(@, step.item)]
                     [] step.kind = "stop" -> [g EXCEPT !.state = "exhausted"]
                     [] step.kind = "raise" -> [g EXCEPT !.state = step.exc]]
     /\ raised' = IF step.kind = "raise" THEN step.exc ELSE "none"
  /\ lastOp' = [op |-> "next", gen |-> k]
  /\ matrix' = None
  /\ UNCHANGED <<keyfiles, idfiles, trialfiles, instances, n_items>>

\* instances[i].tst_keys(); every object that exists is an SRE10 object
TstKeys(i) ==
  /\ i \in 1..Len(instances)
  /\ instances[i].cls = "SRE10"
  /\ LET r == SRE10_tst_keys(idfiles, trialfiles, instances[i].condition, instances[i].gender) IN
     /\ matrix' = r.keys
     /\ raised' = r.raised
  /\ lastOp' = [op |-> "tst_keys", inst |-> i]
  /\ UNCHANGED <<keyfiles, idfiles, trialfiles, instances, n_items, gens>>

Next ==
  \/ \E c \in ModelConditions, g \in Genders : ConstructSRE10(c, g)
  \/ ConstructDebug
  \/ \E i \in 1..MaxInstances, p \in Partitions : CallIter(i, p)
  \/ \E k \in 1..MaxGens : NextItem(k)

Spec == Init /\ [][Next]_vars

\* The key-loading runs: one object, one generator
OneOfEach == Len(instances) <= 1 /\ Len(gens) <= 1

NextKeys ==
  \/ \E c \in ModelConditions, g \in Genders : ConstructSRE10(c, g) /\ OneOfEach'
  \/ ConstructDebug /\ OneOfEach'
  \/ \E i \in 1..MaxInstances, p \in Partitions : CallIter(i, p) /\ OneOfEach'
  \/ \E k \in 1..MaxGens : NextItem(k) /\ OneOfEach'

SpecKeys == InitKeys /\ [][NextKeys]_vars

----------------------------------------------------------------------------
(* The key-mask runs.  tst_keys() reads files only and leaves the objects,   *)
(* the n_items and the generators alone, so it is run apart from them.  The  *)
(* identifier lists and the key mask of condition 5, gender f vary; every    *)
(* line of the key mask holds one token per test identifier, either cells or *)
(* the test identifiers themselves (a header).                               *)

Cells == {"-1", "0", "1", "2"}

TrialEnrollLists == {<<"s1">>, <<"s1", "s2">>}

TrialTestLists == {<<"s2">>, <<"s2", "s3">>}

TrialLines(tst) == [1..Len(tst) -> Cells] \cup {tst}

InitTrial ==
  /\ keyfiles = KeyFiles(<<RowA, RowB>>, <<RowM>>)
  /\ \E e \in TrialEnrollLists, t \in TrialTestLists :
       /\ idfiles = [k \in IdFileKeys |->
                       IF k[1] = 5 /\ k[2] = "f" THEN (IF k[3] = "trn" THEN e ELSE t)
                       ELSE <<"s3">>]
       /\ \E lines \in SeqsUpTo(TrialLines(t), 1, MaxLines) :
            trialfiles = [k \in TrialFileKeys |->
                            IF k[1] = 5 /\ k[2] = "f" THEN lines ELSE << <<"1">> >>]
  /\ InitObjects

NextTrial ==
  \/ \E c \in ModelConditions, g \in Genders : ConstructSRE10(c, g) /\ Len(instances') <= 1
  \/ \E i \in 1..MaxInstances : TstKeys(i)

SpecTrial == InitTrial /\ [][NextTrial]_vars

----------------------------------------------------------------------------
(* Vocabulary of the properties *)

\* the count declared for partition p of object i
Declared(i, p) == n_items[IterOwner(instances[i].cls)][p]

\* the rows of the key files as written, in reading order
InputRows == AppendAll(keyfiles, ModelDatabases)

KeysLoad == \A j \in 1..Len(InputRows) : InputRows[j].channel \in {"a", "b", "x"}

\* the seven conditions of the training pool, as one conjunction
InTrainingPool(r, gender) ==
  /\ r.gender = gender
  /\ r.language \in {"ENG", "USE"}
  /\ r.NOMINAL_LENGTH > 100
  /\ r.SPEECH_TYPE = "tel"
  /\ r.CHANNEL_TYPE = "phn"
  /\ r.VOCAL_EFFORT \notin {"high", "low"}
  /\ r.database # "MIX10"

\* the same seven conditions applied one after the other, last first
PoolLastFirst(keys_, gender) ==
  LET k1 == SelectSeq(keys_, LAMBDA r : r.database # "MIX10")
      k2 == SelectSeq(k1, LAMBDA r : r.VOCAL_EFFORT \notin {"high", "low"})
      k3 == SelectSeq(k2, LAMBDA r : r.CHANNEL_TYPE = "phn")
      k4 == SelectSeq(k3, LAMBDA r : r.SPEECH_TYPE = "tel")
      k5 == SelectSeq(k4, LAMBDA r : r.NOMINAL_LENGTH > 100)
      k6 == SelectSeq(k5, LAMBDA r : r.language \in {"ENG", "USE"})
  IN SelectSeq(k6, LAMBDA r : r.gender = gender)

\* the identifiers behind partition part of object obj, in order
Backing(obj, part) ==
  CASE part = "train" -> [j \in 1..Len(obj.trn_keys_) |-> obj.trn_keys_[j].unique_name]
    [] part = "dev_enroll" -> obj.dev_enroll_keys_
    [] part = "dev_test" -> obj.dev_test_keys_
    [] part = "tst_enroll" -> obj.tst_enroll_keys_
    [] part = "tst_test" -> obj.tst_test_keys_

\* item is the identifier u paired with the one record the KeyTable holds for u
PairsWithRecord(item, u, keys_) ==
  /\ item.unique_name = u
  /\ item.dict.kind = "row"
  /\ \E j \in 1..Len(keys_) :
       keys_[j].unique_name = u /\ item.dict.cols = [c \in Columns |-> keys_[j][c]]

----------------------------------------------------------------------------
(* C1: for every object and partition, the declared n_items equals the      *)
(* number of items an iteration of that partition produced when it ended.   *)
C1_PartitionLength ==
  \A k \in 1..Len(gens) :
    gens[k].state = "exhausted" =>
      Declared(gens[k].inst, gens[k].part) = Some(Len(gens[k].out))

(* C2: constructing a protocol object changes neither the partitions nor    *)
(* the declared counts of an object constructed before.                     *)
C2_InstanceOwnsState ==
  [][\A i \in 1..Len(instances) :
       /\ instances'[i] = instances[i]
       /\ \A p \in Partitions : n_items'[IterOwner(instances[i].cls)][p] = Declared(i, p)]_vars

(* C3: every KeyTable that was built holds one row per identifier: rows     *)
(* equal in every field were merged, and two different rows of one          *)
(* identifier made construction fail.                                       *)
C3_DedupCorrectness ==
  /\ \A i \in 1..Len(instances) :
       \A a, b \in 1..Len(instances[i].keys_) :
         instances[i].keys_[a].unique_name = instances[i].keys_[b].unique_name => a = b
  /\ (\E a, b \in 1..Len(InputRows) :
        InputRows[a].unique_name = InputRows[b].unique_name /\ InputRows[a] # InputRows[b])
       => instances = <<>>

(* C4: the train partition of an SRE10 object of gender g is exactly the    *)
(* KeyTable rows meeting the seven conditions, in KeyTable order, whatever  *)
(* the order the conditions are applied in; iterating it yields those rows, *)
(* in that order, and nothing else.                                         *)
C4_TrainingPoolFilter ==
  /\ \A i \in 1..Len(instances) :
       LET obj == instances[i] IN
       obj.cls = "SRE10" =>
         /\ obj.trn_keys_ = SelectSeq(obj.keys_, LAMBDA r : InTrainingPool(r, obj.gender))
         /\ obj.trn_keys_ = PoolLastFirst(obj.keys_, obj.gender)
  /\ \A k \in 1..Len(gens) :
       LET g == gens[k]
           obj == instances[g.inst]
           pool == SelectSeq(obj.keys_, LAMBDA r : InTrainingPool(r, obj.gender))
       IN (obj.cls = "SRE10" /\ g.part = "train") =>
            /\ g.state \in {"running", "exhausted"}
            /\ Len(g.out) <= Len(pool)
            /\ \A j \in 1..Len(g.out) :
                 /\ g.out[j].unique_name = pool[j].unique_name
                 /\ g.out[j].dict = [kind |-> "row", cols |-> [c \in Columns |-> pool[j][c]]]
            /\ g.state = "exhausted" => Len(g.out) = Len(pool)

\* an exhausted train iteration of an object whose KeyTable holds two rows of
\* the pool and a row outside it
C4_Witness ==
  \E k \in 1..Len(gens) :
    /\ gens[k].part = "train"
    /\ gens[k].state = "exhausted"
    /\ Len(gens[k].out) = 2
    /\ instances[gens[k].inst].cls = "SRE10"
    /\ Len(instances[gens[k].inst].keys_) > 2

(* C5: a Debug protocol can be constructed, and iterating it yields at most *)
(* 21 train items, at most 10 eval-enroll and 10 eval-test items, and no    *)
(* dev-enroll or dev-test item.                                             *)
C5_DebugTruncation ==
  /\ (lastOp.op = "construct" /\ lastOp.cls = "Debug" /\ KeysLoad) =>
       (raised = "none" /\ \E i \in 1..Len(instances) : instances[i].cls = "Debug")
  /\ \A k \in 1..Len(gens) :
       instances[gens[k].inst].cls = "Debug" =>
         /\ gens[k].state \in {"running", "exhausted"}
         /\ Len(gens[k].out) <=
              (CASE gens[k].part = "train" -> 21
                 [] gens[k].part \in {"tst_enroll", "tst_test"} -> 10
                 [] OTHER -> 0)

(* C6: constructing Debug succeeds, and its training pool is the KeyTable   *)
(* rows of gender f meeting the six other conditions and lying in MIX10.    *)
C6_DebugTrainingPool ==
  (lastOp.op = "construct" /\ lastOp.cls = "Debug" /\ KeysLoad) =>
    /\ raised = "none"
    /\ instances # <<>>
    /\ LET obj == instances[Len(instances)] IN
       /\ obj.cls = "Debug"
       /\ obj.trn_keys_ =
            SelectSeq(obj.keys_, LAMBDA r :
              /\ r.gender = "f"
              /\ r.language \in {"ENG", "USE"}
              /\ r.NOMINAL_LENGTH > 100
              /\ r.SPEECH_TYPE = "tel"
              /\ r.CHANNEL_TYPE = "phn"
              /\ r.VOCAL_EFFORT \notin {"high", "low"}
              /\ r.database = "MIX10")

(* C7: an identifier list naming a record the KeyTable lacks makes          *)
(* construction fail, so no iteration of eval-enroll or eval-test of a      *)
(* constructed object ever raises.                                          *)
C7_FailAtConstruction ==
  \A k \in 1..Len(gens) :
    gens[k].part \in {"tst_enroll", "tst_test"} => gens[k].state \in {"running", "exhausted"}

(* C8: tst_keys() on a key mask whose first line is the test-identifier     *)
(* list, followed by one line per enrollment identifier, returns a matrix    *)
(* with the test identifiers as columns, the enrollment identifiers as row   *)
(* index and every cell in {-1, 0, 1}; it fails when the number of rows      *)
(* differs from the number of enrollment identifiers or a cell is outside    *)
(* {-1, 0, 1}.                                                               *)
C8_TrialMatrixShape ==
  lastOp.op = "tst_keys" =>
    LET obj == instances[lastOp.inst]
        trn == idfiles[<<obj.condition, obj.gender, "trn">>]
        tst == idfiles[<<obj.condition, obj.gender, "tst">>]
        lines == trialfiles[<<obj.condition, obj.gender>>]
        body == Tail(lines)
        valid(rows) == \A i \in 1..Len(rows) : \A j \in 1..Len(rows[i]) :
                         rows[i][j] \in {"-1", "0", "1"}
    IN
    /\ raised = "none" =>
         /\ matrix.val.columns = tst
         /\ matrix.val.index = trn
         /\ Len(matrix.val.rows) = Len(trn)
         /\ \A i \in 1..Len(matrix.val.rows) : Len(matrix.val.rows[i]) = Len(tst)
         /\ valid(matrix.val.rows)
    /\ (lines[1] = tst /\ Len(body) = Len(trn) /\ valid(body)) =>
         (raised = "none" /\ matrix.val.rows = body)
    /\ (lines[1] = tst /\ (Len(body) # Len(trn) \/ ~valid(body))) => raised # "none"

(* C9: every row of a loaded KeyTable has channel 1 or 2, obtained from the *)
(* row of the key files by a -> 1, b -> 2, x -> 1; a key file with any      *)
(* other channel symbol makes loading fail and no object is constructed     *)
(* (and loading fails for no other reason).                                 *)
C9_ChannelNormalization ==
  LET Mapping == {<<"a", 1>>, <<"b", 2>>, <<"x", 1>>}
      Same(raw, row) ==
        /\ <<raw.channel, row.channel>> \in Mapping
        /\ raw.unique_name = row.unique_name
        /\ \A c \in Columns \ {"channel"} : raw[c] = row[c]
  IN
  /\ ~KeysLoad =>
       /\ instances = <<>>
       /\ lastOp.op = "construct" => raised = "KeyError"
  /\ (KeysLoad /\ lastOp.op = "construct" /\ lastOp.cls = "SRE10") => raised = "none"
  /\ \A i \in 1..Len(instances) :
       LET keys_ == instances[i].keys_ IN
       /\ \A j \in 1..Len(keys_) :
            /\ keys_[j].channel \in {1, 2}
            /\ \E a \in 1..Len(InputRows) : Same(InputRows[a], keys_[j])
       /\ \A a \in 1..Len(InputRows) : \E j \in 1..Len(keys_) : Same(InputRows[a], keys_[j])

\* an object whose KeyTable was loaded from rows of channel x, b and a
C9_Witness ==
  /\ instances # <<>>
  /\ lastOp.op = "construct"
  /\ \A ch \in {"a", "b", "x"} : \E a \in 1..Len(InputRows) : InputRows[a].channel = ch
  /\ \E j \in 1..Len(instances[1].keys_) :
       instances[1].keys_[j].unique_name = "s3" /\ instances[1].keys_[j].channel = 1

(* C10: every generator obtained from a partition iterator, however the     *)
(* calls and the steps of other generators interleave, yields the backing   *)
(* sequence of its partition from the first element, in order, each         *)
(* identifier paired with its KeyTable record, and all of it when it ends.  *)
C10_RestartableIteration ==
  \A k \in 1..Len(gens) :
    LET g == gens[k]
        obj == instances[g.inst]
        backing == Backing(obj, g.part)
    IN
    /\ g.state \in {"running", "exhausted"}
    /\ Len(g.out) <= Len(backing)
    /\ \A j \in 1..Len(g.out) : PairsWithRecord(g.out[j], backing[j], obj.keys_)
    /\ g.state = "exhausted" => Len(g.out) = Len(backing)

====
